---- MODULE Spec2Model ----
(***************************************************************************)
(* A model of ouch's command dispatcher, `run` in src/commands/mod.rs:     *)
(* the compress, decompress and list subcommands with their ahead-of-time  *)
(* checks, the partial-compression reconciliation, the mime-type check     *)
(* and the cleanup of the destination file.                                *)
(*                                                                         *)
(* Paths are sequences of one-character strings, so that the textual       *)
(* operations of the code (rfind, insert_str, Path::extension) are         *)
(* computed on text.  An Extension is a record of its compression formats  *)
(* and its display text.                                                   *)
(***************************************************************************)
EXTENDS Integers, Sequences, FiniteSets, TLC

\* ---------------------------------------------------------------- bounds

\* The largest number of input paths of one command.
MaxFiles == 2

\* ------------------------------------------------------------------ text

Min(a, b) == IF a <= b THEN a ELSE b

t_tar  == <<"t", "a", "r">>
t_tgz  == <<"t", "g", "z">>
t_zip  == <<"z", "i", "p">>
t_gz   == <<"g", "z">>
t_bz   == <<"b", "z">>
t_bz2  == <<"b", "z", "2">>
t_xz   == <<"x", "z">>
t_zst  == <<"z", "s", "t">>
t_dottar == <<".", "t", "a", "r">>

\* A file name: a stem followed by dot-separated extensions.
RECURSIVE Name(_, _)
Name(stem, exts) ==
    IF exts = <<>> THEN stem
    ELSE Name(stem \o <<".">> \o Head(exts), Tail(exts))

\* The index of the last "." of s, 0 when there is none.
RECURSIVE LastDot(_, _)
LastDot(s, i) ==
    IF i = 0 THEN 0
    ELSE IF s[i] = "." THEN i
    ELSE LastDot(s, i - 1)

\* Path::extension: the text after the last ".", none when the name has no
\* "." or only a leading one.
HasExtension(s) == LastDot(s, Len(s)) > 1
PathExtension(s) == SubSeq(s, LastDot(s, Len(s)) + 1, Len(s))
\* Path::file_stem: the text before the last ".".
FileStem(s) ==
    IF HasExtension(s) THEN SubSeq(s, 1, LastDot(s, Len(s)) - 1) ELSE s

\* str::rfind, 0-based; -1 stands for None.
RECURSIVE RFindFrom(_, _, _)
RFindFrom(hay, needle, i) ==
    IF i < 0 THEN -1
    ELSE IF SubSeq(hay, i + 1, i + Len(needle)) = needle THEN i
    ELSE RFindFrom(hay, needle, i - 1)
RFind(hay, needle) == RFindFrom(hay, needle, Len(hay) - Len(needle))

\* String::insert_str at the 0-based byte position pos.
InsertStr(s, pos, text) ==
    SubSeq(s, 1, pos) \o text \o SubSeq(s, pos + 1, Len(s))

\* ------------------------------------------------------------ extensions

\* CompressionFormat::is_archive_format
IsArchiveFormat(f) == f \in {"Tar", "Zip"}

\* The compression formats of a written extension, <<>> when it is not a
\* supported one (the match of separate_known_extensions_from_name).
KnownFormats(ext) ==
    CASE ext = t_tar -> <<"Tar">>
      [] ext = t_tgz -> <<"Tar", "Gzip">>
      [] ext = t_zip -> <<"Zip">>
      [] ext = t_gz  -> <<"Gzip">>
      [] ext = t_bz  -> <<"Bzip">>
      [] ext = t_bz2 -> <<"Bzip">>
      [] ext = t_xz  -> <<"Lzma">>
      [] ext = t_zst -> <<"Zstd">>
      [] OTHER -> <<>>

\* Extension::new
NewExtension(formats, text) ==
    [compression_formats |-> formats, display_text |-> text]

\* Extension::is_archive: decided by the first compression format.
IsArchive(ext) == IsArchiveFormat(ext.compression_formats[1])

\* impl Display for Extension: the display text.
ExtToString(ext) == ext.display_text

\* impl PartialEq for Extension: the display text is ignored.
ExtEq(a, b) == a.compression_formats = b.compression_formats

\* Vec<Extension> equality.
ChainEq(a, b) ==
    /\ Len(a) = Len(b)
    /\ \A k \in 1..Len(a) : ExtEq(a[k], b[k])

\* separate_known_extensions_from_name: strips the supported extensions
\* from the right; the chain is in file-name order ("x.tar.gz" gives
\* [tar, gz]).
RECURSIVE separate_known_extensions_from_name(_, _)
separate_known_extensions_from_name(path, acc) ==
    IF HasExtension(path) /\ KnownFormats(PathExtension(path)) # <<>>
    THEN separate_known_extensions_from_name(
             FileStem(path),
             <<NewExtension(KnownFormats(PathExtension(path)), PathExtension(path))>> \o acc)
    ELSE [name |-> path, extensions |-> acc]

extensions_from_path(path) ==
    separate_known_extensions_from_name(path, <<>>).extensions

\* The residual base name.
output_name_of(path) ==
    separate_known_extensions_from_name(path, <<>>).name

\* formats.get(0).map(Extension::is_archive).unwrap_or(false)
FirstIsArchive(formats) == Len(formats) > 0 /\ IsArchive(formats[1])

\* ---------------------------------------------------------------- inputs

n_a          == <<"a">>
n_d          == <<"d">>
n_x_gz       == Name(<<"x">>, <<t_gz>>)
n_x_tar      == Name(<<"x">>, <<t_tar>>)
n_x_tgz      == Name(<<"x">>, <<t_tgz>>)
n_x_zip      == Name(<<"x">>, <<t_zip>>)
n_x_tar_gz   == Name(<<"x">>, <<t_tar, t_gz>>)

\* The paths a command may be given as inputs; n_d is a directory, the
\* others are regular files.
InputNames == {n_a, n_d, n_x_gz, n_x_tar, n_x_tgz, n_x_zip, n_x_tar_gz}
DirNames == {n_d}

\* The paths a compress command may be given as its output.
OutputNames ==
    { <<"o">>,
      Name(<<"o">>, <<t_gz>>),
      Name(<<"o">>, <<t_bz2>>),
      Name(<<"o">>, <<t_tgz>>),
      Name(<<"o">>, <<t_zip>>),
      Name(<<"o">>, <<t_tar, t_gz>>),
      Name(<<"o">>, <<t_gz, t_tar>>),
      Name(<<"o">>, <<t_bz, t_xz>>),
      Name(<<"o">>, <<t_tar, t_zip>>),
      Name(<<"o">>, <<t_zip, t_gz>>),
      Name(<<"x">>, <<t_tar, t_gz, t_xz>>),
      Name(<<"a", "g", "z", "t", "a", "r">>, <<t_gz, t_tar>>),
      n_x_tar }

\* Option<Extension>::None
NoExt == [compression_formats |-> <<>>, display_text |-> <<>>]

\* What try_infer_extension may return for a file.
SniffResults ==
    { NoExt,
      NewExtension(<<"Gzip">>, t_gz),
      NewExtension(<<"Tar">>, t_tar) }

QuestionPolicies == {"Ask", "AlwaysYes", "AlwaysNo"}

\* The outcomes of a confirmation (user_wants_to_continue,
\* user_wants_to_overwrite) under a question policy: the forced answer, or
\* whatever the prompt yields, a read error included.
UserAnswers(policy) ==
    CASE policy = "AlwaysYes" -> {"yes"}
      [] policy = "AlwaysNo"  -> {"no"}
      [] OTHER                -> {"yes", "no", "err"}

FileLists == UNION { [1..n -> InputNames] : n \in 1..MaxFiles }

\* The paths a decompress or list command may be given: regular files.
ArchiveNames == {n_a, n_x_gz, n_x_tar, n_x_tgz, n_x_tar_gz}
ArchiveLists == UNION { [1..n -> ArchiveNames] : n \in 1..MaxFiles }

\* ----------------------------------------------------------------- state

VARIABLES
    cmd,                    \* the subcommand: "compress", "decompress", "list"
    files,                  \* the input paths
    output_path,            \* compress: the destination path
    out_state,              \* the destination: "absent", "exists", "created", "removed"
    question_policy,
    nonempty_dirs,          \* the directories that hold at least one entry
    sniff,                  \* try_infer_extension of each input, by index
    output_dir,             \* decompress --dir: "none", "absent", "exists"
    formats,                \* compress: the output chain
    file_formats,           \* decompress, list: each input's chain
    idx,                    \* the position of the running loop
    pc,                     \* the position in run
    result,                 \* what run returned, "running" before it returns
    compress_result,        \* what compress_files returned
    suggested_output_path,  \* the "To:" hint of the multiple-files error
    named_format,           \* the format an error names
    listed_files,           \* the files an error lists
    effects,                \* the calls with side effects made so far
    msgs,                   \* the notices and warnings emitted so far
    asked,                  \* the questions asked so far, with their answers
    checks                  \* the output-chain checks evaluated so far

\* TarCompressor::make_archive_from_files (compressors/tar.rs).
VARIABLES
    current_dir,            \* the process's current working directory
    called_from,            \* the current directory when the function was called
    input_filenames,        \* the function's argument
    filename_idx,           \* how many of input_filenames the for loop has taken
    previous_location,      \* the loop body's previous_location
    walk,                   \* the entries WalkDir has still to yield
    builder,                \* the files appended to the Builder b so far
    tar_pc,                 \* the position in the function, "idle" outside it
    tar_result              \* what the function returned, "running" before

run_vars == <<cmd, files, output_path, out_state, question_policy, nonempty_dirs,
              sniff, output_dir, formats, file_formats, idx, pc, result,
              compress_result, suggested_output_path, named_format,
              listed_files, effects, msgs, asked, checks>>

tar_vars == <<current_dir, called_from, input_filenames, filename_idx,
              previous_location, walk, builder, tar_pc, tar_result>>

vars == <<run_vars, tar_vars>>

\* The archive builder is not running.
TarIdle ==
    /\ current_dir = <<>>
    /\ called_from = <<>>
    /\ input_filenames = <<>>
    /\ filename_idx = 0
    /\ previous_location = <<>>
    /\ walk = <<>>
    /\ builder = <<>>
    /\ tar_pc = "idle"
    /\ tar_result = "running"

InitCommon ==
    /\ question_policy \in QuestionPolicies
    /\ formats = <<>>
    /\ file_formats = <<>>
    /\ idx = 0
    /\ pc = "start"
    /\ result = "running"
    /\ compress_result = "none"
    /\ suggested_output_path = <<>>
    /\ named_format = NoExt
    /\ listed_files = <<>>
    /\ effects = <<>>
    /\ msgs = <<>>
    /\ asked = <<>>
    /\ checks = <<>>
    /\ TarIdle

InitCompress ==
    /\ cmd = "compress"
    /\ files \in FileLists
    /\ output_path \in OutputNames
    /\ out_state \in {"absent", "exists"}
    /\ nonempty_dirs \in SUBSET DirNames
    /\ sniff = <<>>
    /\ output_dir = "none"

InitDecompress ==
    /\ cmd = "decompress"
    /\ files \in ArchiveLists
    /\ output_path = <<>>
    /\ out_state = "absent"
    /\ nonempty_dirs = {}
    /\ sniff \in [1..Len(files) -> SniffResults]
    /\ output_dir \in {"none", "absent", "exists"}

InitList ==
    /\ cmd = "list"
    /\ files \in ArchiveLists
    /\ output_path = <<>>
    /\ out_state = "absent"
    /\ nonempty_dirs = {}
    /\ sniff \in [1..Len(files) -> SniffResults]
    /\ output_dir = "none"

Init == InitCommon /\ (InitCompress \/ InitDecompress \/ InitList)

\* run returns r.
Return(r) ==
    /\ result' = r
    /\ pc' = "done"

Effect(e) == effects' = Append(effects, e)

\* A question put to the user: its kind, the input it is about (0 for the
\* destination) and the answer.
Asked(kind, about, answer) ==
    [kind |-> kind, about |-> about, answer |-> answer]
Emit(m) == msgs' = Append(msgs, m)

\* -------------------------------------------------------------- compress

\* represents_several_files: some path is a non-empty directory, or there
\* is more than one path.
represents_several_files(fs) ==
    \/ \E k \in 1..Len(fs) : fs[k] \in DirNames /\ fs[k] \in nonempty_dirs
    \/ Len(fs) > 1

\* deduplicate_input_files that advances idx after a removal as well: the
\* input that follows a removed one is never compared.
RECURSIVE deduplicate_input_files_SkipsNext(_, _)
deduplicate_input_files_SkipsNext(fs, out) ==
    IF fs = <<>> THEN <<>>
    ELSE IF Head(fs) = out
    THEN IF Tail(fs) = <<>> THEN <<>>
         ELSE <<Head(Tail(fs))>>
              \o deduplicate_input_files_SkipsNext(Tail(Tail(fs)), out)
    ELSE <<Head(fs)>> \o deduplicate_input_files_SkipsNext(Tail(fs), out)

\* deduplicate_input_files: removes every input equal to the output path.
deduplicate_input_files(fs, out) ==
    SelectSeq(fs, LAMBDA p : p # out)

\* One warning for each input deduplicate_input_files removes.
RECURSIVE DedupWarnings(_, _)
DedupWarnings(fs, out) ==
    IF fs = <<>> THEN <<>>
    ELSE (IF Head(fs) = out THEN <<"warn_same_as_output">> ELSE <<>>)
         \o DedupWarnings(Tail(fs), out)

\* formats.iter().map(|format| format.to_string()).collect()
RECURSIVE extensions_text(_)
extensions_text(fmts) ==
    IF fmts = <<>> THEN <<>>
    ELSE ExtToString(Head(fmts)) \o extensions_text(Tail(fmts))

\* The suggestion of the multiple-files error: ".tar" inserted one position
\* before the last occurrence of the extensions' text in the output path.
\* rfind(..).unwrap() panics when the text does not occur, and the position
\* before index 0 is no position of the string.
suggested_path(path, fmts) ==
    LET extensions_start_position == RFind(path, extensions_text(fmts))
        pos == extensions_start_position - 1
    IN  IF extensions_start_position = -1 \/ pos < 0
        THEN [panic |-> TRUE, path |-> <<>>]
        ELSE [panic |-> FALSE, path |-> InsertStr(path, pos, t_dottar)]

\* MisplacedArchive with skip(2) for skip(1): the second position is never
\* looked at.
MisplacedArchive_Skip2(fmts) ==
    LET found == { k \in 3..Len(fmts) : IsArchive(fmts[k]) }
    IN  IF found = {} THEN 0
        ELSE CHOOSE k \in found : \A j \in found : k <= j

\* formats.iter().skip(1).find(|format| format.is_archive()): the index of
\* the first archive format after the first position, 0 when there is none.
MisplacedArchive(fmts) ==
    LET found == { k \in 2..Len(fmts) : IsArchive(fmts[k]) }
    IN  IF found = {} THEN 0
        ELSE CHOOSE k \in found : \A j \in found : k <= j

\* The loop that computes new_formats from the input's chain and the output
\* chain.  The slice out_ext.compression_formats[..inp_ext.len()] panics
\* when the input extension holds more formats than the output extension.
RECURSIVE new_formats_loop(_, _, _, _)
new_formats_loop(inp, out, k, acc) ==
    IF k > Min(Len(inp), Len(out)) THEN [panic |-> FALSE, chain |-> acc]
    ELSE
      LET ie == inp[k].compression_formats
          oe == out[k].compression_formats
      IN  IF ie = oe
          THEN new_formats_loop(inp, out, k + 1, Append(acc, out[k]))
          ELSE IF \A j \in 1..Min(Len(ie), Len(oe)) : ie[j] = oe[j]
          THEN IF Len(ie) > Len(oe)
               THEN [panic |-> TRUE, chain |-> acc]
               ELSE [panic |-> FALSE,
                     chain |-> Append(acc,
                         NewExtension(SubSeq(oe, 1, Len(ie)), out[k].display_text))]
          ELSE new_formats_loop(inp, out, k + 1, acc)

UNCHANGED_inputs ==
    /\ UNCHANGED <<cmd, output_path, question_policy, nonempty_dirs, sniff>>
    /\ UNCHANGED tar_vars

\* Lines 82-91: the deduplication of the inputs, the "No files to compress"
\* exit, and the parse of the output chain.
CompressDedup ==
    /\ pc = "start" /\ cmd = "compress"
    /\ \E canonicalize_ok \in (IF out_state = "exists" THEN BOOLEAN ELSE {TRUE}) :
         LET fs == IF out_state = "exists"
                   THEN deduplicate_input_files(files, output_path)
                   ELSE files
         IN  IF ~canonicalize_ok
             THEN /\ Return("IoFailure")
                  /\ UNCHANGED <<files, formats, msgs>>
             ELSE /\ files' = fs
                  /\ msgs' = IF out_state = "exists"
                             THEN msgs \o DedupWarnings(files, output_path)
                             ELSE msgs
                  /\ IF fs = <<>>
                     THEN Return("NoFilesToCompress") /\ UNCHANGED formats
                     ELSE /\ formats' = extensions_from_path(output_path)
                          /\ pc' = "check_empty"
                          /\ UNCHANGED result
    /\ UNCHANGED_inputs
    /\ UNCHANGED <<out_state, output_dir, file_formats, idx, compress_result,
                   suggested_output_path, named_format, listed_files, effects,
                   asked, checks>>

\* Lines 93-107: the empty-chain check.
CompressCheckEmptyChain ==
    /\ pc = "check_empty"
    /\ checks' = Append(checks, "EmptyChain")
    /\ IF formats = <<>>
       THEN Return("EmptyChain")
       ELSE pc' = "check_multi" /\ UNCHANGED result
    /\ UNCHANGED_inputs
    /\ UNCHANGED <<files, out_state, output_dir, formats, file_formats, idx,
                   compress_result, suggested_output_path, named_format,
                   listed_files, effects, msgs, asked>>

\* Lines 109-137: the multiple-files check and its suggestion.
CompressCheckMultiFile ==
    /\ pc = "check_multi"
    /\ checks' = Append(checks, "MultiFileNeedsArchive")
    /\ IF ~FirstIsArchive(formats) /\ represents_several_files(files)
       THEN LET s == suggested_path(output_path, formats)
            IN  IF s.panic
                THEN Return("panic") /\ UNCHANGED <<suggested_output_path, named_format>>
                ELSE /\ Return("MultiFileNeedsArchive")
                     /\ suggested_output_path' = s.path
                     /\ named_format' = formats[1]
       ELSE /\ pc' = "check_misplaced"
            /\ UNCHANGED <<result, suggested_output_path, named_format>>
    /\ UNCHANGED_inputs
    /\ UNCHANGED <<files, out_state, output_dir, formats, file_formats, idx,
                   compress_result, listed_files, effects, msgs, asked>>

\* CompressCheckMisplaced run after the destination was created: the error
\* is returned with the file already created or truncated.
CompressCheckMisplaced_AfterCreate ==
    /\ pc = "check_misplaced"
    /\ checks' = Append(checks, "ArchiveFormatMisplaced")
    /\ out_state' = "created"
    /\ Effect(<<"create_output", 0>>)
    /\ IF MisplacedArchive(formats) # 0
       THEN /\ Return("ArchiveFormatMisplaced")
            /\ named_format' = formats[MisplacedArchive(formats)]
       ELSE /\ pc' = "reconcile"
            /\ UNCHANGED <<result, named_format>>
    /\ UNCHANGED_inputs
    /\ UNCHANGED <<files, output_dir, formats, file_formats, idx,
                   compress_result, suggested_output_path, listed_files,
                   msgs, asked>>

\* Lines 139-157: the misplaced-archive check.
CompressCheckMisplaced ==
    /\ pc = "check_misplaced"
    /\ checks' = Append(checks, "ArchiveFormatMisplaced")
    /\ IF MisplacedArchive(formats) # 0
       THEN /\ Return("ArchiveFormatMisplaced")
            /\ named_format' = formats[MisplacedArchive(formats)]
       ELSE /\ pc' = "overwrite"
            /\ UNCHANGED <<result, named_format>>
    /\ UNCHANGED_inputs
    /\ UNCHANGED <<files, out_state, output_dir, formats, file_formats, idx,
                   compress_result, suggested_output_path, listed_files,
                   effects, msgs, asked>>

\* CompressOverwrite that goes on to create the destination when the user
\* declines (the negation of the answer dropped).
CompressOverwrite_IgnoresDecline ==
    /\ pc = "overwrite"
    /\ IF out_state = "exists"
       THEN \E answer \in UserAnswers(question_policy) :
              /\ asked' = Append(asked, Asked("overwrite", 0, answer))
              /\ IF answer \in {"yes", "no"} THEN pc' = "create" /\ UNCHANGED result
                 ELSE Return("IoFailure")
       ELSE pc' = "create" /\ UNCHANGED <<result, asked>>
    /\ UNCHANGED_inputs
    /\ UNCHANGED <<files, out_state, output_dir, formats, file_formats, idx,
                   compress_result, suggested_output_path, named_format,
                   listed_files, effects, msgs, checks>>

\* Lines 159-162: the overwrite question, asked when the destination exists.
CompressOverwrite ==
    /\ pc = "overwrite"
    /\ IF out_state = "exists"
       THEN \E answer \in UserAnswers(question_policy) :
              /\ asked' = Append(asked, Asked("overwrite", 0, answer))
              /\ IF answer = "yes" THEN pc' = "create" /\ UNCHANGED result
                 ELSE IF answer = "no" THEN Return("Ok")
                 ELSE Return("IoFailure")
       ELSE pc' = "create" /\ UNCHANGED <<result, asked>>
    /\ UNCHANGED_inputs
    /\ UNCHANGED <<files, out_state, output_dir, formats, file_formats, idx,
                   compress_result, suggested_output_path, named_format,
                   listed_files, effects, msgs, checks>>

\* Line 164: fs::File::create creates or truncates the destination.
CompressCreate ==
    /\ pc = "create"
    /\ \E create_ok \in BOOLEAN :
         IF create_ok
         THEN /\ out_state' = "created"
              /\ Effect(<<"create_output", 0>>)
              /\ pc' = "reconcile"
              /\ UNCHANGED result
         ELSE /\ Return("IoFailure")
              /\ UNCHANGED <<out_state, effects>>
    /\ UNCHANGED_inputs
    /\ UNCHANGED <<files, output_dir, formats, file_formats, idx,
                   compress_result, suggested_output_path, named_format,
                   listed_files, msgs, asked, checks>>

\* CompressReconcile that wraps the output chain around the input's chain
\* ("file.tar.gz.tar.gz.xz").
CompressReconcile_Rewrap ==
    /\ pc = "reconcile"
    /\ IF ~represents_several_files(files)
       THEN /\ formats' = extensions_from_path(files[1]) \o formats
            /\ pc' = "compress_files"
            /\ UNCHANGED <<result, msgs>>
       ELSE /\ pc' = "compress_files"
            /\ UNCHANGED <<result, formats, msgs>>
    /\ UNCHANGED_inputs
    /\ UNCHANGED <<files, out_state, output_dir, file_formats, idx,
                   compress_result, suggested_output_path, named_format,
                   listed_files, effects, asked, checks>>

\* CompressReconcile without the represents_several_files guard: the chain
\* of the first input is reconciled whatever the number of inputs.
CompressReconcile_AlwaysReconcile ==
    /\ pc = "reconcile"
    /\ LET input_extensions == extensions_from_path(files[1])
           new == new_formats_loop(input_extensions, formats, 1, <<>>)
       IN  IF new.panic
           THEN Return("panic") /\ UNCHANGED <<formats, msgs>>
           ELSE IF input_extensions # <<>> /\ ~ChainEq(new.chain, formats)
           THEN /\ Emit("info_partial_compression")
                /\ formats' = new.chain
                /\ pc' = "compress_files"
                /\ UNCHANGED result
           ELSE /\ pc' = "compress_files"
                /\ UNCHANGED <<result, formats, msgs>>
    /\ UNCHANGED_inputs
    /\ UNCHANGED <<files, out_state, output_dir, file_formats, idx,
                   compress_result, suggested_output_path, named_format,
                   listed_files, effects, asked, checks>>

\* Lines 166-206: the partial-compression reconciliation of a single input.
CompressReconcile ==
    /\ pc = "reconcile"
    /\ IF ~represents_several_files(files)
       THEN LET input_extensions == extensions_from_path(files[1])
                new == new_formats_loop(input_extensions, formats, 1, <<>>)
            IN  IF new.panic
                THEN Return("panic") /\ UNCHANGED <<formats, msgs>>
                ELSE IF input_extensions # <<>> /\ ~ChainEq(new.chain, formats)
                THEN /\ Emit("info_partial_compression")
                     /\ formats' = new.chain
                     /\ pc' = "compress_files"
                     /\ UNCHANGED result
                ELSE /\ pc' = "compress_files"
                     /\ UNCHANGED <<result, formats, msgs>>
       ELSE /\ pc' = "compress_files"
            /\ UNCHANGED <<result, formats, msgs>>
    /\ UNCHANGED_inputs
    /\ UNCHANGED <<files, out_state, output_dir, file_formats, idx,
                   compress_result, suggested_output_path, named_format,
                   listed_files, effects, asked, checks>>

\* Lines 207-214: the call of compress_files with the final chain; it
\* returns Ok(true), Ok(false) or Err.
CompressFiles ==
    /\ pc = "compress_files"
    /\ compress_result' \in {"OkTrue", "OkFalse", "Err"}
    /\ Effect(<<"compress_files", 0>>)
    /\ pc' = "finish"
    /\ UNCHANGED_inputs
    /\ UNCHANGED <<files, out_state, output_dir, formats, file_formats, idx,
                   result, suggested_output_path, named_format, listed_files,
                   msgs, asked, checks>>

\* CompressFinish that removes the destination on Err only, not on Ok(false).
CompressFinish_CleanupOnErrOnly ==
    /\ pc = "finish"
    /\ IF compress_result = "OkTrue"
       THEN /\ Emit("info_successfully_compressed")
            /\ UNCHANGED <<out_state, effects>>
       ELSE IF compress_result = "OkFalse"
       THEN UNCHANGED <<out_state, effects, msgs>>
       ELSE \E remove_ok \in BOOLEAN :
              IF remove_ok
              THEN /\ out_state' = "removed"
                   /\ Effect(<<"remove_output", 0>>)
                   /\ UNCHANGED msgs
              ELSE /\ Emit("fatal_could_not_delete")
                   /\ UNCHANGED <<out_state, effects>>
    /\ Return(IF compress_result = "Err" THEN "CodecFailure" ELSE "Ok")
    /\ UNCHANGED_inputs
    /\ UNCHANGED <<files, output_dir, formats, file_formats, idx,
                   compress_result, suggested_output_path, named_format,
                   listed_files, asked, checks>>

\* CompressFinish that takes every Ok, Ok(false) included, for a success.
CompressFinish_SuccessOnAnyOk ==
    /\ pc = "finish"
    /\ IF compress_result \in {"OkTrue", "OkFalse"}
       THEN /\ Emit("info_successfully_compressed")
            /\ UNCHANGED <<out_state, effects>>
       ELSE \E remove_ok \in BOOLEAN :
              IF remove_ok
              THEN /\ out_state' = "removed"
                   /\ Effect(<<"remove_output", 0>>)
                   /\ UNCHANGED msgs
              ELSE /\ Emit("fatal_could_not_delete")
                   /\ UNCHANGED <<out_state, effects>>
    /\ Return(IF compress_result = "Err" THEN "CodecFailure" ELSE "Ok")
    /\ UNCHANGED_inputs
    /\ UNCHANGED <<files, output_dir, formats, file_formats, idx,
                   compress_result, suggested_output_path, named_format,
                   listed_files, asked, checks>>

\* Lines 216-242: the final status line, or the removal of the incomplete
\* destination file with the fatal notice when the removal fails.
CompressFinish ==
    /\ pc = "finish"
    /\ IF compress_result = "OkTrue"
       THEN /\ Emit("info_successfully_compressed")
            /\ UNCHANGED <<out_state, effects>>
       ELSE \E remove_ok \in BOOLEAN :
              IF remove_ok
              THEN /\ out_state' = "removed"
                   /\ Effect(<<"remove_output", 0>>)
                   /\ UNCHANGED msgs
              ELSE /\ Emit("fatal_could_not_delete")
                   /\ UNCHANGED <<out_state, effects>>
    /\ Return(IF compress_result = "Err" THEN "CodecFailure" ELSE "Ok")
    /\ UNCHANGED_inputs
    /\ UNCHANGED <<files, output_dir, formats, file_formats, idx,
                   compress_result, suggested_output_path, named_format,
                   listed_files, asked, checks>>

\* ------------------------------------------------------ decompress, list

\* Lines 245-252 and 303-308: each input's chain from its name.
ParseInputNames ==
    /\ pc = "start" /\ cmd \in {"decompress", "list"}
    /\ file_formats' = [k \in 1..Len(files) |-> extensions_from_path(files[k])]
    /\ idx' = 1
    /\ pc' = "mime"
    /\ UNCHANGED_inputs
    /\ UNCHANGED <<files, out_state, output_dir, formats, result,
                   compress_result, suggested_output_path, named_format,
                   listed_files, effects, msgs, asked, checks>>

\* The next position of check_mime_type's loop: the following file, or the
\* return of ControlFlow::Continue after the last one.
MimeAdvance ==
    IF idx = Len(files)
    THEN pc' = "after_mime" /\ idx' = 0
    ELSE pc' = "mime" /\ idx' = idx + 1

\* MimeQuestion where a decline skips the file instead of ending the batch.
MimeQuestion_SkipFile(push) ==
    \E answer \in UserAnswers(question_policy) :
      /\ asked' = Append(asked, Asked("continue", idx, answer))
      /\ IF answer \in {"yes", "no"}
         THEN /\ file_formats' =
                    IF push /\ answer = "yes"
                    THEN [file_formats EXCEPT ![idx] = Append(@, sniff[idx])]
                    ELSE file_formats
              /\ MimeAdvance
              /\ UNCHANGED result
         ELSE /\ Return("IoFailure")
              /\ UNCHANGED <<file_formats, idx>>

\* user_wants_to_continue within check_mime_type: yes goes on, with the
\* detected format pushed when push is set; no makes check_mime_type return
\* Break and run return Ok; an error is returned as it is.
MimeQuestion(push) ==
    \E answer \in UserAnswers(question_policy) :
      /\ asked' = Append(asked, Asked("continue", idx, answer))
      /\ IF answer = "yes"
         THEN /\ file_formats' =
                    IF push
                    THEN [file_formats EXCEPT ![idx] = Append(@, sniff[idx])]
                    ELSE file_formats
              /\ MimeAdvance
              /\ UNCHANGED result
         ELSE /\ Return(IF answer = "no" THEN "Ok" ELSE "IoFailure")
              /\ UNCHANGED <<file_formats, idx>>

\* CheckMimeType that compares the detected format with the first token of
\* the chain (iter().next()) instead of the last one.
CheckMimeType_FirstToken ==
    /\ pc = "mime"
    /\ IF file_formats[idx] = <<>>
       THEN IF sniff[idx] # NoExt
            THEN /\ Emit("info_detected_extension")
                 /\ MimeQuestion(TRUE)
            ELSE /\ MimeAdvance
                 /\ UNCHANGED <<result, file_formats, msgs, asked>>
       ELSE IF sniff[idx] # NoExt
            THEN LET outer_ext == file_formats[idx][1]
                 IN  IF ~ExtEq(outer_ext, sniff[idx])
                     THEN /\ Emit("warn_extension_differs")
                          /\ MimeQuestion(FALSE)
                     ELSE /\ MimeAdvance
                          /\ UNCHANGED <<result, file_formats, msgs, asked>>
            ELSE /\ Emit("info_could_not_detect")
                 /\ MimeAdvance
                 /\ UNCHANGED <<result, file_formats, asked>>
    /\ UNCHANGED_inputs
    /\ UNCHANGED <<files, out_state, output_dir, formats, compress_result,
                   suggested_output_path, named_format, listed_files, effects,
                   checks>>

\* Lines 351-389: one iteration of check_mime_type, for the file at idx.
CheckMimeType ==
    /\ pc = "mime"
    /\ IF file_formats[idx] = <<>>
       THEN IF sniff[idx] # NoExt
            THEN /\ Emit("info_detected_extension")
                 /\ MimeQuestion(TRUE)
            ELSE /\ MimeAdvance
                 /\ UNCHANGED <<result, file_formats, msgs, asked>>
       ELSE IF sniff[idx] # NoExt
            THEN LET outer_ext == file_formats[idx][Len(file_formats[idx])]
                 IN  IF ~ExtEq(outer_ext, sniff[idx])
                     THEN /\ Emit("warn_extension_differs")
                          /\ MimeQuestion(FALSE)
                     ELSE /\ MimeAdvance
                          /\ UNCHANGED <<result, file_formats, msgs, asked>>
            ELSE /\ Emit("info_could_not_detect")
                 /\ MimeAdvance
                 /\ UNCHANGED <<result, file_formats, asked>>
    /\ UNCHANGED_inputs
    /\ UNCHANGED <<files, out_state, output_dir, formats, compress_result,
                   suggested_output_path, named_format, listed_files, effects,
                   checks>>

\* files.iter().zip(&formats).filter(..).collect(): the inputs at the
\* positions kept by the filter, in input order.
FilesWhere(kept) ==
    LET pos == SelectSeq([k \in 1..Len(files) |-> k], LAMBDA k : k \in kept)
    IN  [j \in 1..Len(pos) |-> files[pos[j]]]

\* DecompressMissingFormat whose error lists every input, the filter on the
\* empty chains forgotten.
DecompressMissingFormat_ListsAll ==
    /\ pc = "after_mime" /\ cmd = "decompress"
    /\ LET files_missing_format == FilesWhere({ k \in 1..Len(files) : file_formats[k] = <<>> })
       IN  IF files_missing_format # <<>>
           THEN /\ Return("MissingExtension")
                /\ listed_files' = files
           ELSE /\ pc' = "output_dir"
                /\ UNCHANGED <<result, listed_files>>
    /\ UNCHANGED_inputs
    /\ UNCHANGED <<files, out_state, output_dir, formats, file_formats, idx,
                   compress_result, suggested_output_path, named_format,
                   effects, msgs, asked, checks>>

\* Lines 258-282: the files whose chain is still empty make the
\* missing-extension error.
DecompressMissingFormat ==
    /\ pc = "after_mime" /\ cmd = "decompress"
    /\ LET files_missing_format == FilesWhere({ k \in 1..Len(files) : file_formats[k] = <<>> })
       IN  IF files_missing_format # <<>>
           THEN /\ Return("MissingExtension")
                /\ listed_files' = files_missing_format
           ELSE /\ pc' = "output_dir"
                /\ UNCHANGED <<result, listed_files>>
    /\ UNCHANGED_inputs
    /\ UNCHANGED <<files, out_state, output_dir, formats, file_formats, idx,
                   compress_result, suggested_output_path, named_format,
                   effects, msgs, asked, checks>>

\* Lines 286-295: with --dir, clear_path asks before it removes an existing
\* directory, and create_dir_if_non_existent creates it.
DecompressOutputDir ==
    /\ pc = "output_dir"
    /\ IF output_dir = "none"
       THEN /\ pc' = "decompress" /\ idx' = 1
            /\ UNCHANGED <<result, output_dir, effects, asked>>
       ELSE IF output_dir = "exists"
       THEN \E answer \in UserAnswers(question_policy) :
              /\ asked' = Append(asked, Asked("overwrite", 0, answer))
              /\ IF answer = "yes"
                 THEN /\ effects' = effects \o <<<<"clear_dir", 0>>, <<"create_dir", 0>>>>
                      /\ output_dir' = "created"
                      /\ pc' = "decompress" /\ idx' = 1
                      /\ UNCHANGED result
                 ELSE /\ Return(IF answer = "no" THEN "Ok" ELSE "IoFailure")
                      /\ UNCHANGED <<output_dir, effects, idx>>
       ELSE \E create_ok \in BOOLEAN :
              /\ UNCHANGED asked
              /\ IF create_ok
                 THEN /\ Effect(<<"create_dir", 0>>)
                      /\ output_dir' = "created"
                      /\ pc' = "decompress" /\ idx' = 1
                      /\ UNCHANGED result
                 ELSE /\ Return("IoFailure")
                      /\ UNCHANGED <<output_dir, effects, idx>>
    /\ UNCHANGED_inputs
    /\ UNCHANGED <<files, out_state, formats, file_formats, compress_result,
                   suggested_output_path, named_format, listed_files, msgs,
                   checks>>

\* What a call on one input returned.
Outcome(ok) == IF ok THEN "ok" ELSE "err"

\* LoopAdvance that goes on with the next file after a failure and returns
\* the error of the last file only.
LoopAdvance_ContinuesAfterFailure(ok, here) ==
    IF idx = Len(files)
    THEN Return(IF ok THEN "Ok" ELSE "CodecFailure") /\ UNCHANGED idx
    ELSE pc' = here /\ idx' = idx + 1 /\ UNCHANGED result

\* The next position of a loop over the inputs that calls an operation
\* which may fail: the error is returned at once, run returns Ok after the
\* last file.
LoopAdvance(ok, here) ==
    IF ~ok THEN Return("CodecFailure") /\ UNCHANGED idx
    ELSE IF idx = Len(files) THEN Return("Ok") /\ UNCHANGED idx
    ELSE pc' = here /\ idx' = idx + 1 /\ UNCHANGED result

\* Lines 297-300: decompress_file for the file at idx.
DecompressFile ==
    /\ pc = "decompress"
    /\ \E ok \in BOOLEAN :
         /\ Effect(<<"decompress_file", idx, Outcome(ok)>>)
         /\ LoopAdvance(ok, "decompress")
    /\ UNCHANGED_inputs
    /\ UNCHANGED <<files, out_state, output_dir, formats, file_formats,
                   compress_result, suggested_output_path, named_format,
                   listed_files, msgs, asked, checks>>

\* ListNotArchives that looks at the last token of each chain instead of
\* the first.
ListNotArchives_LastToken ==
    /\ pc = "after_mime" /\ cmd = "list"
    /\ LET not_archives ==
               FilesWhere({ k \in 1..Len(files) :
                   \/ file_formats[k] = <<>>
                   \/ ~IsArchive(file_formats[k][Len(file_formats[k])]) })
       IN  IF not_archives # <<>>
           THEN /\ Return("NotAnArchive")
                /\ listed_files' = not_archives
                /\ UNCHANGED idx
           ELSE /\ pc' = "list" /\ idx' = 1
                /\ UNCHANGED <<result, listed_files>>
    /\ UNCHANGED_inputs
    /\ UNCHANGED <<files, out_state, output_dir, formats, file_formats,
                   compress_result, suggested_output_path, named_format,
                   effects, msgs, asked, checks>>

\* Lines 314-330: the files whose chain does not start with an archive
\* format make the not-an-archive error.
ListNotArchives ==
    /\ pc = "after_mime" /\ cmd = "list"
    /\ LET not_archives == FilesWhere({ k \in 1..Len(files) : ~FirstIsArchive(file_formats[k]) })
       IN  IF not_archives # <<>>
           THEN /\ Return("NotAnArchive")
                /\ listed_files' = not_archives
                /\ UNCHANGED idx
           ELSE /\ pc' = "list" /\ idx' = 1
                /\ UNCHANGED <<result, listed_files>>
    /\ UNCHANGED_inputs
    /\ UNCHANGED <<files, out_state, output_dir, formats, file_formats,
                   compress_result, suggested_output_path, named_format,
                   effects, msgs, asked, checks>>

\* Lines 334-340: list_archive_contents for the archive at idx.
ListArchive ==
    /\ pc = "list"
    /\ \E ok \in BOOLEAN :
         /\ Effect(<<"list_archive_contents", idx, Outcome(ok)>>)
         /\ LoopAdvance(ok, "list")
    /\ UNCHANGED_inputs
    /\ UNCHANGED <<files, out_state, output_dir, formats, file_formats,
                   compress_result, suggested_output_path, named_format,
                   listed_files, msgs, asked, checks>>

Next ==
    \/ CompressDedup
    \/ CompressCheckEmptyChain
    \/ CompressCheckMultiFile
    \/ CompressCheckMisplaced
    \/ CompressOverwrite
    \/ CompressCreate
    \/ CompressReconcile
    \/ CompressFiles
    \/ CompressFinish
    \/ ParseInputNames
    \/ CheckMimeType
    \/ DecompressMissingFormat
    \/ DecompressOutputDir
    \/ DecompressFile
    \/ ListNotArchives
    \/ ListArchive

Spec == Init /\ [][Next]_vars

\* ------------------------------------- compressors/tar.rs: the tar builder

\* Canonical paths are sequences of components; the root is the empty one.
RootPath == <<>>

\* The file tree the function runs in, in the order a walk yields it:
\*   /  /home  /home/a  /data  /data/sub  /data/sub/f
TarTree == << RootPath,
              <<"home">>, <<"home", "a">>,
              <<"data">>, <<"data", "sub">>, <<"data", "sub", "f">> >>

TarPaths == { TarTree[k] : k \in 1..Len(TarTree) }

\* Path::is_dir.
IsDir(path) == path \in {RootPath, <<"home">>, <<"data">>, <<"data", "sub">>}

TarDirs == { p \in TarPaths : IsDir(p) }

\* Path::parent of a canonical path other than the root (the root has none).
Parent(path) == SubSeq(path, 1, Len(path) - 1)

\* q is path or lies below it.
IsBelow(path, q) ==
    /\ Len(path) <= Len(q)
    /\ SubSeq(q, 1, Len(path)) = path

\* WalkDir::new(filename): the entry itself, then everything below it.
WalkDir(path) == SelectSeq(TarTree, LAMBDA q : IsBelow(path, q))

\* The arguments the function may be called with.
TarInputs == UNION { [1..n -> TarPaths] : n \in 0..MaxFiles }

\* The command that calls the builder is not part of this specification:
\* its variables rest while the builder runs.
RunAtRest ==
    /\ cmd = "compress"
    /\ files = <<>>
    /\ output_path = <<>>
    /\ out_state = "created"
    /\ question_policy = "Ask"
    /\ nonempty_dirs = {}
    /\ sniff = <<>>
    /\ output_dir = "none"
    /\ formats = <<>>
    /\ file_formats = <<>>
    /\ idx = 0
    /\ pc = "compress_files"
    /\ result = "running"
    /\ compress_result = "none"
    /\ suggested_output_path = <<>>
    /\ named_format = NoExt
    /\ listed_files = <<>>
    /\ effects = <<>>
    /\ msgs = <<>>
    /\ asked = <<>>
    /\ checks = <<>>

\* Line 21: the call, from any current directory.
TarInit ==
    /\ RunAtRest
    /\ current_dir \in TarDirs
    /\ called_from = current_dir
    /\ input_filenames \in TarInputs
    /\ filename_idx = 0
    /\ previous_location = <<>>
    /\ walk = <<>>
    /\ builder = <<>>
    /\ tar_pc = "for"
    /\ tar_result = "running"

\* The function returns r (or aborts, r = "panic").
TarReturn(r) ==
    /\ tar_result' = r
    /\ tar_pc' = "done"

\* Lines 33-37 with the closure of lines 23-28: the loop takes the next
\* filename, reads the current directory, enters the filename's parent and
\* starts the walk. Either call may fail, and the root has no parent.
TarChangeDir ==
    /\ tar_pc = "for"
    /\ filename_idx < Len(input_filenames)
    /\ LET filename == input_filenames[filename_idx + 1] IN
       \E current_dir_ok, set_current_dir_ok \in BOOLEAN :
         IF ~current_dir_ok
         THEN /\ TarReturn("ChangeDirErr")
              /\ UNCHANGED <<current_dir, filename_idx, previous_location, walk>>
         ELSE IF filename = RootPath
         THEN /\ TarReturn("panic")
              /\ UNCHANGED <<current_dir, filename_idx, previous_location, walk>>
         ELSE IF ~set_current_dir_ok
         THEN /\ TarReturn("ChangeDirErr")
              /\ UNCHANGED <<current_dir, filename_idx, previous_location, walk>>
         ELSE /\ previous_location' = current_dir
              /\ current_dir' = Parent(filename)
              /\ filename_idx' = filename_idx + 1
              /\ walk' = WalkDir(filename)
              /\ tar_pc' = "walk"
              /\ UNCHANGED tar_result
    /\ UNCHANGED <<called_from, input_filenames, builder>>
    /\ UNCHANGED run_vars

\* Lines 37-44: one entry of the walk. A failed entry, a failed open and a
\* failed append each return at once through `?`; a directory is skipped.
TarWalkEntry ==
    /\ tar_pc = "walk"
    /\ walk # <<>>
    /\ LET path == Head(walk) IN
       \E outcome \in {"ok", "entry_err", "open_err", "append_err"} :
         IF outcome = "entry_err"
         THEN /\ TarReturn("WalkErr")
              /\ UNCHANGED <<walk, builder>>
         ELSE IF IsDir(path)
         THEN /\ walk' = Tail(walk)
              /\ UNCHANGED <<builder, tar_pc, tar_result>>
         ELSE IF outcome = "open_err"
         THEN /\ TarReturn("OpenErr")
              /\ UNCHANGED <<walk, builder>>
         ELSE IF outcome = "append_err"
         THEN /\ TarReturn("AppendErr")
              /\ UNCHANGED <<walk, builder>>
         ELSE /\ builder' = Append(builder, path)
              /\ walk' = Tail(walk)
              /\ UNCHANGED <<tar_pc, tar_result>>
    /\ UNCHANGED <<current_dir, called_from, input_filenames, filename_idx,
                   previous_location>>
    /\ UNCHANGED run_vars

\* Line 45: after the walk the previous directory is entered again.
TarRestoreDir ==
    /\ tar_pc = "walk"
    /\ walk = <<>>
    /\ \E set_current_dir_ok \in BOOLEAN :
         IF set_current_dir_ok
         THEN /\ current_dir' = previous_location
              /\ tar_pc' = "for"
              /\ UNCHANGED tar_result
         ELSE /\ TarReturn("RestoreErr")
              /\ UNCHANGED current_dir
    /\ UNCHANGED <<called_from, input_filenames, filename_idx,
                   previous_location, walk, builder>>
    /\ UNCHANGED run_vars

\* Line 48: the loop is over and the builder is finished.
TarIntoInner ==
    /\ tar_pc = "for"
    /\ filename_idx = Len(input_filenames)
    /\ \E into_inner_ok \in BOOLEAN :
         TarReturn(IF into_inner_ok THEN "Ok" ELSE "IntoInnerErr")
    /\ UNCHANGED <<current_dir, called_from, input_filenames, filename_idx,
                   previous_location, walk, builder>>
    /\ UNCHANGED run_vars

TarNext ==
    \/ TarChangeDir
    \/ TarWalkEntry
    \/ TarRestoreDir
    \/ TarIntoInner

TarSpec == TarInit /\ [][TarNext]_vars

\* ---------------------------------------------------------------- claims

\* The validated output chain of a compress command: the chain of the
\* output path's name.
OutChain == extensions_from_path(output_path)

\* The chain of the single input's name.
InChain == extensions_from_path(files[1])

\* The input set stands for more than one logical item: more than one path,
\* or a path that is a non-empty directory.
SeveralItems ==
    \/ Len(files) > 1
    \/ \E k \in 1..Len(files) : files[k] \in nonempty_dirs

\* The chain has an archive format at a position other than the first.
HasMisplacedArchive(c) == \E k \in 2..Len(c) : IsArchive(c[k])

\* The first position after the first that holds an archive format.
FirstMisplaced(c) ==
    CHOOSE k \in 2..Len(c) :
        IsArchive(c[k]) /\ \A j \in 2..(k - 1) : ~IsArchive(c[j])

ValidationErrors ==
    {"EmptyChain", "MultiFileNeedsArchive", "ArchiveFormatMisplaced",
     "MissingExtension", "NotAnArchive"}

CountMsg(m) == Cardinality({ k \in 1..Len(msgs) : msgs[k] = m })

\* compress_files has been called.
CompressFilesCalled == compress_result # "none"

\* Some continue-question was answered with a.
ContinueAnswered(a) ==
    \E k \in 1..Len(asked) : asked[k].kind = "continue" /\ asked[k].answer = a

\* C1: in a compress command that reaches the output-chain checks, the
\* first check that fails, in the order EmptyChain, MultiFileNeedsArchive,
\* ArchiveFormatMisplaced, is the error returned, and no later check is
\* evaluated.
C1_FirstFailingCheckIsReturned ==
    (cmd = "compress" /\ pc = "done" /\ checks # <<>>) =>
      LET failsEmpty == OutChain = <<>>
          failsMulti == ~FirstIsArchive(OutChain) /\ SeveralItems
          failsMisplaced == HasMisplacedArchive(OutChain)
      IN  /\ failsEmpty =>
                /\ result = "EmptyChain"
                /\ checks = <<"EmptyChain">>
          /\ (~failsEmpty /\ failsMulti) =>
                /\ result = "MultiFileNeedsArchive"
                /\ checks = <<"EmptyChain", "MultiFileNeedsArchive">>
          /\ (~failsEmpty /\ ~failsMulti /\ failsMisplaced) =>
                /\ result = "ArchiveFormatMisplaced"
                /\ checks = <<"EmptyChain", "MultiFileNeedsArchive",
                              "ArchiveFormatMisplaced">>

\* C2: when run returns a validation error, nothing destructive has
\* happened: no call with a side effect was made, the destination file is
\* as it was and the output directory is as it was.
C2_ValidationErrorsBeforeDestructiveWork ==
    result \in ValidationErrors =>
      /\ effects = <<>>
      /\ out_state \in {"absent", "exists"}
      /\ output_dir \in {"none", "absent", "exists"}

\* A misplaced-archive error for a destination that exists.
C2_Witness ==
    /\ pc = "done"
    /\ result = "ArchiveFormatMisplaced"
    /\ out_state = "exists"

\* C3: for one logical input whose chain is a proper leading sub-chain of
\* the validated output chain, the chain handed to compress_files is the
\* rest of the output chain, the tokens already applied to the input left
\* out (x.tar.gz into x.tar.gz.xz hands [xz]).
C3_HandedChainIsTheRemainder ==
    ( /\ cmd = "compress"
      /\ CompressFilesCalled
      /\ ~SeveralItems
      /\ Len(InChain) < Len(OutChain)
      /\ ChainEq(InChain, SubSeq(OutChain, 1, Len(InChain))) ) =>
      ChainEq(formats, SubSeq(OutChain, Len(InChain) + 1, Len(OutChain)))

\* C4: when compress_files returned Err or Ok(false), run ends with the
\* destination file removed, or, when the removal failed, with the file
\* left and the fatal notice emitted once.
C4_FailedCompressionRemovesDestination ==
    (pc = "done" /\ compress_result \in {"OkFalse", "Err"}) =>
      \/ /\ out_state = "removed"
         /\ CountMsg("fatal_could_not_delete") = 0
      \/ /\ out_state = "created"
         /\ CountMsg("fatal_could_not_delete") = 1

\* compress_files returned Ok(false) and the destination was removed.
C4_Witness ==
    /\ pc = "done"
    /\ compress_result = "OkFalse"
    /\ out_state = "removed"
    /\ result = "Ok"

\* C5: in a decompress or list command, once the continue-question is
\* declined for a file, run has returned Ok and no file of the batch was
\* decompressed or listed, and the output directory was neither cleared
\* nor created.
C5_DeclineAbortsWholeBatch ==
    (cmd \in {"decompress", "list"} /\ ContinueAnswered("no")) =>
      /\ pc = "done"
      /\ result = "Ok"
      /\ effects = <<>>
      /\ output_dir \in {"none", "absent", "exists"}

\* The question is declined for the second of two files.
C5_Witness ==
    /\ cmd = "decompress"
    /\ Len(files) = 2
    /\ output_dir = "exists"
    /\ \E k \in 1..Len(asked) :
         asked[k] = Asked("continue", 2, "no")

\* C6: the chain handed to compress_files holds an archive format at its
\* first position only.
C6_HandedChainArchiveOnlyFirst ==
    (cmd = "compress" /\ (pc = "compress_files" \/ CompressFilesCalled)) =>
      \A k \in 1..Len(formats) : IsArchive(formats[k]) => k = 1

\* A reconciled chain that starts with an archive format is handed over.
C6_Witness ==
    /\ CompressFilesCalled
    /\ CountMsg("info_partial_compression") = 1
    /\ formats # <<>>
    /\ IsArchive(formats[1])

\* C7: a compress command with a non-empty output chain returns
\* MultiFileNeedsArchive exactly when the first token of the chain is no
\* archive format and the inputs are more than one logical item.
C7_MultiFileExactlyWhen ==
    (cmd = "compress" /\ pc = "done" /\ Len(checks) >= 2) =>
      ( result = "MultiFileNeedsArchive"
          <=> (~FirstIsArchive(OutChain) /\ SeveralItems) )

\* The output path with ".tar" put right before its first extension.
ExpectedSuggestion ==
    LET stem == output_name_of(output_path)
    IN  stem \o t_dottar \o SubSeq(output_path, Len(stem) + 1, Len(output_path))

\* C8: whenever the multiple-files check fails, the error is produced and
\* its suggested path is the output path with ".tar" inserted right before
\* the first token of the textual extension.
C8_SuggestionInsertsTarBeforeExtensions ==
    ( /\ cmd = "compress"
      /\ Len(checks) >= 2
      /\ ~FirstIsArchive(OutChain)
      /\ SeveralItems ) =>
      /\ result = "MultiFileNeedsArchive"
      /\ suggested_output_path = ExpectedSuggestion

\* C9 as stated: a compress command that returns from the output-chain
\* checks with an archive format after the first position of its chain
\* returns ArchiveFormatMisplaced.
C9_MisplacedAlwaysRejected ==
    ( /\ cmd = "compress"
      /\ pc = "done"
      /\ checks # <<>>
      /\ result # "panic"
      /\ HasMisplacedArchive(OutChain) ) =>
      result = "ArchiveFormatMisplaced"

\* C9, amended: when the multiple-files check does not fire first (the
\* chain starts with an archive format, or the input is one logical item),
\* an archive format after the first position is rejected with
\* ArchiveFormatMisplaced naming the first such token.
C9_MisplacedRejectedUnlessMultiFile ==
    ( /\ cmd = "compress"
      /\ pc = "done"
      /\ checks # <<>>
      /\ HasMisplacedArchive(OutChain)
      /\ (FirstIsArchive(OutChain) \/ ~SeveralItems) ) =>
      /\ result = "ArchiveFormatMisplaced"
      /\ named_format = OutChain[FirstMisplaced(OutChain)]

\* The chain [gz, tar] with a single file is rejected.
C9_Witness ==
    /\ cmd = "compress"
    /\ pc = "done"
    /\ output_path = Name(<<"o">>, <<t_gz, t_tar>>)
    /\ ~SeveralItems
    /\ result = "ArchiveFormatMisplaced"
    /\ named_format = NewExtension(<<"Tar">>, t_tar)

\* The chain of the k-th input's name.
NameChain(k) == extensions_from_path(files[k])

\* The continue-question about the k-th input was answered with a.
AnsweredAbout(k, a) ==
    \E j \in 1..Len(asked) : asked[j] = Asked("continue", k, a)

\* The inputs whose chain is empty, in input order.
StillEmpty ==
    LET pos == SelectSeq([k \in 1..Len(files) |-> k],
                         LAMBDA k : file_formats[k] = <<>>)
    IN  [j \in 1..Len(pos) |-> files[pos[j]]]

\* C10 as stated: a decompress input with an empty name chain whose
\* content inference fails, and which the resolver came to (no question
\* about an earlier file was declined or failed), makes the command fail
\* with the missing-extension error.
C10_FailedInferenceAlwaysMissingExtension ==
    (cmd = "decompress" /\ pc = "done") =>
      \A k \in 1..Len(files) :
        ( /\ NameChain(k) = <<>>
          /\ sniff[k] = NoExt
          /\ \A j \in 1..Len(asked) :
               (asked[j].kind = "continue" /\ asked[j].about < k)
                   => asked[j].answer = "yes" ) =>
          result = "MissingExtension"

\* C10, amended: an accepted inferred token is appended to that file's
\* chain and to no other; a file whose inference fails keeps an empty
\* chain and is not asked about; and, unless a continue-question of the
\* batch is declined or fails, the command then returns the
\* missing-extension error listing exactly the files whose chain is empty.
C10_EmptyChainResolution ==
    (cmd = "decompress" /\ pc # "start") =>
      \A k \in 1..Len(files) :
        /\ file_formats[k] =
             IF NameChain(k) = <<>> /\ AnsweredAbout(k, "yes")
             THEN <<sniff[k]>>
             ELSE NameChain(k)
        /\ (NameChain(k) = <<>> /\ sniff[k] = NoExt) =>
             /\ file_formats[k] = <<>>
             /\ \A j \in 1..Len(asked) : asked[j].about # k
             /\ ( /\ pc = "done"
                  /\ ~ContinueAnswered("no")
                  /\ ~ContinueAnswered("err") ) =>
                  /\ result = "MissingExtension"
                  /\ listed_files = StillEmpty

\* An inferred token was accepted for one file and inference failed for
\* another: the error lists the second file only.
C10_Witness ==
    /\ cmd = "decompress"
    /\ pc = "done"
    /\ result = "MissingExtension"
    /\ Len(files) = 2
    /\ Len(listed_files) = 1
    /\ \E k \in 1..Len(files) :
         /\ NameChain(k) = <<>>
         /\ AnsweredAbout(k, "yes")
         /\ file_formats[k] = <<sniff[k]>>

\* The resolver is at a file whose name yields a chain.
AtNamedFile == pc = "mime" /\ file_formats[idx] # <<>>

\* The outermost token of the chain of the file the resolver is at: the
\* last extension of the name.
OutermostToken == file_formats[idx][Len(file_formats[idx])]

\* The sniffed format of that file differs from its outermost token.
SniffMismatch ==
    /\ sniff[idx] # NoExt
    /\ OutermostToken.compression_formats # sniff[idx].compression_formats

\* The step warns and asks the continue-question about the file at idx.
WarnsAndAsks ==
    /\ msgs' = Append(msgs, "warn_extension_differs")
    /\ Len(asked') = Len(asked) + 1
    /\ asked'[Len(asked')].kind = "continue"
    /\ asked'[Len(asked')].about = idx

\* The step emits nothing and asks nothing.
Silent == msgs' = msgs /\ asked' = asked

\* C11 as stated: for a file whose name yields a chain, a mismatch of the
\* outermost token with the sniffed format warns and asks; agreement and
\* failed inference emit nothing and ask nothing.
C11_AgreementAndFailedInferenceSilent ==
    [][ AtNamedFile =>
          IF SniffMismatch THEN WarnsAndAsks ELSE Silent ]_vars

\* C11, amended: a mismatch warns and asks; agreement emits nothing and
\* asks nothing; failed inference asks nothing and emits one informational
\* notice that the extension could not be detected.
C11_MismatchWarnsAgreementSilent ==
    [][ AtNamedFile =>
          IF SniffMismatch THEN WarnsAndAsks
          ELSE IF sniff[idx] # NoExt THEN Silent
          ELSE /\ msgs' = Append(msgs, "info_could_not_detect")
               /\ asked' = asked ]_vars

\* A mismatch was warned about and the question asked for a file whose
\* name yields a chain of two tokens.
C11_Witness ==
    /\ cmd \in {"decompress", "list"}
    /\ CountMsg("warn_extension_differs") = 1
    /\ \E j \in 1..Len(asked) :
         /\ asked[j].kind = "continue"
         /\ Len(extensions_from_path(files[asked[j].about])) = 2

\* Two tokens name different formats at some common stage (an alias that
\* covers more stages of the same formats is no difference).
TokensDiffer(a, b) ==
    \E j \in 1..Min(Len(a.compression_formats), Len(b.compression_formats)) :
        a.compression_formats[j] # b.compression_formats[j]

\* The positions at which the input's chain and the output chain differ.
MismatchPositions ==
    { k \in 1..Min(Len(InChain), Len(OutChain)) :
        TokensDiffer(InChain[k], OutChain[k]) }

FirstMismatch == CHOOSE k \in MismatchPositions : \A j \in MismatchPositions : k <= j

\* The chain a ends the chain b.
IsSuffix(a, b) ==
    /\ Len(a) <= Len(b)
    /\ ChainEq(a, SubSeq(b, Len(b) - Len(a) + 1, Len(b)))

\* C12: for a single logical input, the output tokens from the first
\* position where the two chains differ are all still handed to
\* compress_files, none of them counted as applied; and when the chains
\* differ at the first position the handed chain is the validated output
\* chain.
C12_NothingAppliedFromFirstMismatch ==
    ( /\ cmd = "compress"
      /\ CompressFilesCalled
      /\ ~SeveralItems
      /\ MismatchPositions # {} ) =>
      /\ IsSuffix(SubSeq(OutChain, FirstMismatch, Len(OutChain)), formats)
      /\ FirstMismatch = 1 => ChainEq(formats, OutChain)

\* C13: for a compression of more than one logical input the chain handed
\* to compress_files is the validated output chain, and no
\* partial-compression notice is emitted.
C13_NoReconciliationForSeveralInputs ==
    ( /\ cmd = "compress"
      /\ pc = "compress_files" \/ CompressFilesCalled
      /\ SeveralItems ) =>
      /\ formats = OutChain
      /\ CountMsg("info_partial_compression") = 0

\* Two inputs are compressed, the first of which carries the first token of
\* the output chain in its name.
C13_Witness ==
    /\ cmd = "compress"
    /\ CompressFilesCalled
    /\ Len(files) = 2
    /\ InChain # <<>>
    /\ Len(OutChain) = 2
    /\ ExtEq(InChain[1], OutChain[1])

\* C14 as stated: a compress command that returns Ok after compress_files
\* was called has emitted the "Successfully compressed" line exactly once.
C14_OkAlwaysWithSuccessLine ==
    ( /\ cmd = "compress"
      /\ pc = "done"
      /\ CompressFilesCalled
      /\ result = "Ok" ) =>
      CountMsg("info_successfully_compressed") = 1

\* C14, amended: when compress_files returned Ok(true), run returns Ok and
\* the line was emitted exactly once; in every other run of a compress
\* command, the one where compress_files returned Ok(false) and run returns
\* Ok included, the line is never emitted.
C14_SuccessLineExactlyOnOkTrue ==
    cmd = "compress" =>
      /\ (pc = "done" /\ compress_result = "OkTrue") =>
            /\ result = "Ok"
            /\ CountMsg("info_successfully_compressed") = 1
      /\ ~(pc = "done" /\ compress_result = "OkTrue") =>
            CountMsg("info_successfully_compressed") = 0

\* A compression that succeeded.
C14_Witness ==
    /\ cmd = "compress"
    /\ pc = "done"
    /\ compress_result = "OkTrue"
    /\ result = "Ok"
    /\ out_state = "created"
    /\ CountMsg("info_successfully_compressed") = 1

\* The overwrite question (for the compress destination, or for the
\* decompress output directory) was declined.
OverwriteDeclined ==
    \E k \in 1..Len(asked) : asked[k] = Asked("overwrite", 0, "no")

\* C15: once the user declines to overwrite the compress destination or to
\* clear the decompress output directory, run has returned Ok, the path is
\* as it was, and nothing was compressed or decompressed.
C15_DeclinedOverwriteIsNoError ==
    OverwriteDeclined =>
      /\ pc = "done"
      /\ result = "Ok"
      /\ effects = <<>>
      /\ compress_result = "none"
      /\ cmd = "compress" => out_state = "exists"
      /\ cmd = "decompress" => output_dir = "exists"

\* The overwrite of an existing compress destination is declined.
C15_Witness ==
    /\ cmd = "compress"
    /\ OverwriteDeclined
    /\ out_state = "exists"
    /\ result = "Ok"

\* The decompress_file and list_archive_contents calls made so far, each
\* with the position of its file and what it returned.
FileCalls ==
    SelectSeq(effects,
              LAMBDA e : e[1] \in {"decompress_file", "list_archive_contents"})

\* C16: the files of a decompress or list command are processed one at a
\* time in input order, each after the one before it succeeded; a failure
\* is returned at once, so that it is the last call made; a run that
\* returns Ok from the loop has processed every file; and nothing follows
\* the calls that would undo what they produced.
C16_OneFileAtATimeInOrder ==
    cmd \in {"decompress", "list"} =>
      LET n == Len(FileCalls)
      IN  /\ n <= Len(files)
          /\ \A k \in 1..n :
               /\ FileCalls[k][2] = k
               /\ k < n => FileCalls[k][3] = "ok"
          /\ pc \in {"decompress", "list"} => n = idx - 1
          /\ (n > 0 /\ FileCalls[n][3] = "err") =>
               (pc = "done" /\ result = "CodecFailure")
          /\ (n > 0 /\ FileCalls[n][3] = "ok" /\ pc = "done") =>
               (result = "Ok" /\ n = Len(files))
          /\ SubSeq(effects, Len(effects) - n + 1, Len(effects)) = FileCalls

\* The second of two files fails after the first was decompressed.
C16_Witness ==
    /\ cmd = "decompress"
    /\ pc = "done"
    /\ result = "CodecFailure"
    /\ FileCalls = << <<"decompress_file", 1, "ok">>,
                      <<"decompress_file", 2, "err">> >>

\* The resolved chain of the k-th input is no archive chain: it is empty,
\* or its first token is no archive format.
NonArchiveChain(k) ==
    \/ file_formats[k] = <<>>
    \/ ~IsArchiveFormat(file_formats[k][1].compression_formats[1])

\* The inputs whose resolved chain is no archive chain, in input order.
NonArchiveFiles ==
    LET pos == SelectSeq([k \in 1..Len(files) |-> k],
                         LAMBDA k : NonArchiveChain(k))
    IN  [j \in 1..Len(pos) |-> files[pos[j]]]

\* The ambiguity resolver went through every file: run has returned and no
\* continue-question was declined or failed.
ResolverCompleted ==
    /\ pc = "done"
    /\ ~ContinueAnswered("no")
    /\ ~ContinueAnswered("err")

\* C17: a list command whose chains are resolved returns the
\* not-an-archive error exactly when some resolved chain is no archive
\* chain; the error names exactly the files with such a chain, and nothing
\* was listed.
C17_NotAnArchiveExactlyWhen ==
    (cmd = "list" /\ ResolverCompleted) =>
      /\ result = "NotAnArchive" <=> NonArchiveFiles # <<>>
      /\ result = "NotAnArchive" =>
           /\ listed_files = NonArchiveFiles
           /\ effects = <<>>

\* One of two files is no archive: the error names it alone and the valid
\* archive is not listed.
C17_Witness ==
    /\ cmd = "list"
    /\ pc = "done"
    /\ result = "NotAnArchive"
    /\ Len(files) = 2
    /\ Len(listed_files) = 1
    /\ effects = <<>>

\* The inputs that differ from the output path, in their order.
RECURSIVE OtherInputs(_, _)
OtherInputs(fs, out) ==
    IF fs = <<>> THEN <<>>
    ELSE IF Head(fs) = out THEN OtherInputs(Tail(fs), out)
    ELSE <<Head(fs)>> \o OtherInputs(Tail(fs), out)

\* run deduplicates the inputs of a compress command whose output exists
\* (the step in which canonicalize does not fail).
Deduplicates ==
    /\ cmd = "compress"
    /\ pc = "start"
    /\ out_state = "exists"
    /\ result' # "IoFailure"

\* C18: when the output path exists, the step that deduplicates the inputs
\* leaves exactly the inputs that differ from the output path, in their
\* order, emits one warning for each removed input and nothing else, and,
\* when no input is left, returns "No files to compress" with no check
\* evaluated, no question asked and the destination untouched.
C18_DedupRemovesExactlyTheOutput ==
    [][ Deduplicates =>
          /\ files' = OtherInputs(files, output_path)
          /\ \A k \in 1..Len(files') : files'[k] # output_path
          /\ Len(msgs') = Len(msgs) + (Len(files) - Len(files'))
          /\ \A k \in 1..Len(msgs') : msgs'[k] = "warn_same_as_output"
          /\ IF files' = <<>>
             THEN /\ result' = "NoFilesToCompress"
                  /\ pc' = "done"
                  /\ checks' = <<>> /\ asked' = <<>> /\ effects' = <<>>
                  /\ out_state' = out_state
             ELSE result' = "running" ]_vars

\* Of two inputs the one equal to the existing output was removed with one
\* warning, and the other is kept.
C18_Witness ==
    /\ cmd = "compress"
    /\ pc = "check_empty"
    /\ out_state = "exists"
    /\ Len(files) = 1
    /\ files[1] # output_path
    /\ msgs = <<"warn_same_as_output">>

\* The destination file was created by this run.
DestinationCreated ==
    \E k \in 1..Len(effects) : effects[k][1] = "create_output"

\* C19: the reconciliation of a single logical input with a validated
\* output chain always completes and yields a chain: a run that created
\* the destination does not abort.
C19_ReconciliationIsTotal ==
    (cmd = "compress" /\ DestinationCreated) => result # "panic"

\* C20: the chain handed to compress_files is never empty.
C20_HandedChainNeverEmpty ==
    (cmd = "compress" /\ (pc = "compress_files" \/ CompressFilesCalled)) =>
      formats # <<>>

\* The function returned Ok, or an error raised while walking or appending
\* an entry.
TarReturnedFromWalk ==
    /\ tar_pc = "done"
    /\ tar_result \in {"Ok", "WalkErr", "OpenErr", "AppendErr"}

\* C21: when make_archive_from_files returns, with Ok or with an error
\* raised while walking or appending an entry, the current working
\* directory is the one in effect when it was called.
C21_CurrentDirUnchangedOnReturn ==
    TarReturnedFromWalk => current_dir = called_from

====
